---- MODULE Spec2Model ----
(***************************************************************************)
(* FAQ extractor: the text normalizer, the extraction strategies, the      *)
(* tiered fetch and the URL-keyed store of app.py and of model.py.         *)
(* Texts are sequences of one-symbol strings.                              *)
(***************************************************************************)
EXTENDS Integers, Sequences, FiniteSets, TLC

VARIABLES
    ctext,  \* normalizer run: the current text
    cprev,  \* normalizer run: the text before the last clean_text
    cn,     \* normalizer run: how many times clean_text was applied
    cwho,   \* normalizer run: whose clean_text ("app" or "model")
    doc,    \* extraction run: the parsed document, a sequence of sibling elements
    xwho,   \* extraction run: whose extractor ("app" or "model")
    xpc,    \* extraction run: "start" or "done"
    xfaqs,  \* extraction run: the returned pairs
    xran,   \* extraction run: the strategies that were executed, in order
    prog,        \* which script runs: "app" (app.py) or "model" (model.py)
    hasSession,  \* whether "from requests_html import HTMLSession" succeeded
    proc,        \* the process: "down", "up" or "crashed"
    faq_store,   \* the in-memory store
    file,        \* DATA_FILE on disk
    live,        \* headless browsers launched and not yet quit
    pc,          \* where the current request stands: "idle", "tier1", ...
    url,         \* the URL of the current (or last) request
    html,        \* the local html of the fetch in progress
    tiers,       \* the fetch tiers attempted by the request, in order
    outs,        \* what each attempted tier met (its outcome), in order
    ret,         \* what the fetch-and-extract call returned, or that it raised
    resp,        \* what the request reported
    saved        \* the last put that was persisted: its URL and result

cvars == <<ctext, cprev, cn, cwho>>
xvars == <<doc, xwho, xpc, xfaqs, xran>>
mvars == <<prog, hasSession, proc, faq_store, file, live, pc, url, html,
           tiers, outs, ret, resp, saved>>
vars == <<ctext, cprev, cn, cwho, doc, xwho, xpc, xfaqs, xran,
          prog, hasSession, proc, faq_store, file, live, pc, url, html,
          tiers, outs, ret, resp, saved>>

\* ------------------------------------------------------------------ bounds
MaxLen == 6
MaxElems == 4
MaxLive == 2

\* ------------------------------------------------------------- characters
NL == "\n"
NBSP == "nbsp"
PILCROW == "pilcrow"
ACIRC == "Acirc"
Digits == {"0", "1", "2", "3", "4", "5", "6", "7", "8", "9"}
\* what \s matches in a str pattern, and what str.strip() strips
Whitespace == {" ", NL, "\t", NBSP}

\* ------------------------------------------------------------ text helpers
Drop(s, n) == SubSeq(s, n + 1, Len(s))

RECURSIVE RunLen(_, _)
\* length of the longest prefix of s whose symbols are all in S
RunLen(s, S) ==
    IF s # <<>> /\ Head(s) \in S THEN 1 + RunLen(Tail(s), S) ELSE 0

RECURSIVE Remove(_, _)
\* re.sub of a one-character class by ""
Remove(s, S) ==
    IF s = <<>> THEN <<>>
    ELSE IF Head(s) \in S THEN Remove(Tail(s), S)
    ELSE <<Head(s)>> \o Remove(Tail(s), S)

\* length of a match of \[\d+\] at the start of s, 0 when there is none
CitationLen(s) ==
    IF s # <<>> /\ Head(s) = "["
    THEN LET d == RunLen(Tail(s), Digits)
         IN IF d >= 1 /\ Len(s) >= d + 2 /\ s[d + 2] = "]" THEN d + 2 ELSE 0
    ELSE 0

RECURSIVE SubCitation(_)
\* re.sub(r"\[\d+\]", "", text)
SubCitation(s) ==
    IF s = <<>> THEN <<>>
    ELSE LET n == CitationLen(s)
         IN IF n > 0 THEN SubCitation(Drop(s, n))
            ELSE <<Head(s)>> \o SubCitation(Tail(s))

RECURSIVE SubAngleCitation(_)
\* re.sub(r"<\[\d+\]", "", text)
SubAngleCitation(s) ==
    IF s = <<>> THEN <<>>
    ELSE LET n == IF Head(s) = "<" THEN CitationLen(Tail(s)) ELSE 0
         IN IF n > 0 THEN SubAngleCitation(Drop(s, n + 1))
            ELSE <<Head(s)>> \o SubAngleCitation(Tail(s))

RECURSIVE SubSpaces(_)
\* re.sub(r"\s+", " ", text)
SubSpaces(s) ==
    IF s = <<>> THEN <<>>
    ELSE LET n == RunLen(s, Whitespace)
         IN IF n > 0 THEN <<" ">> \o SubSpaces(Drop(s, n))
            ELSE <<Head(s)>> \o SubSpaces(Tail(s))

\* re.sub(r"\xa0", " ", text)
SubNbsp(s) == [i \in 1..Len(s) |-> IF s[i] = NBSP THEN " " ELSE s[i]]

RECURSIVE BracketLen(_, _)
\* length of the match of \[.*?\] whose "[" is s[1], scanning from s[i];
\* 0 when a line end or the end of the text comes first (. does not match \n)
BracketLen(s, i) ==
    IF i > Len(s) \/ s[i] = NL THEN 0
    ELSE IF s[i] = "]" THEN i
    ELSE BracketLen(s, i + 1)

RECURSIVE SubBracket(_)
\* re.sub(r"\[.*?\]", " ", text)
SubBracket(s) ==
    IF s = <<>> THEN <<>>
    ELSE LET n == IF Head(s) = "[" THEN BracketLen(s, 2) ELSE 0
         IN IF n > 0 THEN <<" ">> \o SubBracket(Drop(s, n))
            ELSE <<Head(s)>> \o SubBracket(Tail(s))

RECURSIVE RStrip(_)
RStrip(s) ==
    IF s # <<>> /\ s[Len(s)] \in Whitespace
    THEN RStrip(SubSeq(s, 1, Len(s) - 1)) ELSE s

\* str.strip()
Strip(s) == RStrip(Drop(s, RunLen(s, Whitespace)))

\* ---------------------------------------------------------- TextNormalizer
\* app.py clean_text
clean_text(text) ==
    Strip(SubNbsp(SubSpaces(SubCitation(Remove(text, {PILCROW, ACIRC})))))

\* model.py clean_text
clean_text_model(text) ==
    Strip(SubBracket(SubNbsp(SubSpaces(SubAngleCitation(
        Remove(Remove(text, {PILCROW}), {ACIRC}))))))

\* ------------------------------------------------------------ documents
\* A parsed document is the sequence of the sibling elements of its body,
\* each with a tag name and the text of its one text node.
Elem(tag, text) == [tag |-> tag, text |-> text]

RECURSIVE JoinWith(_, _)
\* sep.join(parts)
JoinWith(parts, sep) ==
    IF parts = <<>> THEN <<>>
    ELSE IF Len(parts) = 1 THEN parts[1]
    ELSE parts[1] \o sep \o JoinWith(Tail(parts), sep)

TextsOf(soup) == [i \in 1..Len(soup) |-> soup[i].text]
StrippedTextsOf(soup) == [i \in 1..Len(soup) |-> Strip(soup[i].text)]
NonEmpty(t) == t # <<>>

\* soup.get_text(separator="\n", strip=True)
get_text_stripped(soup) ==
    JoinWith(SelectSeq(StrippedTextsOf(soup), NonEmpty), <<NL>>)

\* soup.get_text("\n")
get_text(soup) == JoinWith(TextsOf(soup), <<NL>>)

\* soup.find_all(tags), as the positions of the elements found
RECURSIVE FindAllFrom(_, _, _)
FindAllFrom(soup, tags, i) ==
    IF i > Len(soup) THEN <<>>
    ELSE (IF soup[i].tag \in tags THEN <<i>> ELSE <<>>)
         \o FindAllFrom(soup, tags, i + 1)
find_all(soup, tags) == FindAllFrom(soup, tags, 1)

\* element.find_next_sibling(name): the position of the first later sibling
\* with that tag, 0 when there is none
RECURSIVE FindNextSiblingFrom(_, _, _)
FindNextSiblingFrom(soup, tags, j) ==
    IF j > Len(soup) THEN 0
    ELSE IF soup[j].tag \in tags THEN j
    ELSE FindNextSiblingFrom(soup, tags, j + 1)

\* ----------------------------------------------------------- NoiseStripper
NoisyTagsApp == {"script", "style", "nav", "footer", "header", "form",
                 "noscript", "iframe", "button", "input", "aside"}
NoisyTagsModel == NoisyTagsApp \cup {"head", "svg", "canvas", "link", "meta"}

IsContentApp(e) == e.tag \notin NoisyTagsApp
IsContentModel(e) == e.tag \notin NoisyTagsModel

\* app.py remove_noisy_tags
remove_noisy_tags(soup) == SelectSeq(soup, IsContentApp)

\* model.py remove_noise; the elements of the model carry no id and no class
remove_noise(soup) == SelectSeq(soup, IsContentModel)

\* ------------------------------------------- regular expressions of mode A
At(t, i) == IF i >= 1 /\ i <= Len(t) THEN t[i] ELSE "<end>"
IsQ(c) == c \in {"Q", "q"}
IsA(c) == c \in {"A", "a"}
IsColonDash(c) == c \in {":", "-"}
SkipWs(t, i) == i + RunLen(Drop(t, i - 1), Whitespace)

\* does the literal word w (matched without case) stand at position i of t
WordAt(t, i, w) ==
    /\ i + Len(w) - 1 <= Len(t)
    /\ \A k \in 1..Len(w) : At(t, i + k - 1) = w[k]

Uestion == <<"u", "e", "s", "t", "i", "o", "n">>
Nswer == <<"n", "s", "w", "e", "r">>

\* app.py, the lookahead (?=\nQ|\Z)
AppLookahead(t, f) == f = Len(t) + 1 \/ (At(t, f) = NL /\ IsQ(At(t, f + 1)))

RECURSIVE AppFirstLookahead(_, _)
\* the least position >= f where the lookahead holds (the end of the text
\* at the latest): where the lazy group 2 ends
AppFirstLookahead(t, f) ==
    IF AppLookahead(t, f) THEN f ELSE AppFirstLookahead(t, f + 1)

\* app.py, group 2 and the end of the match, group 2 starting at r
AppGroup2(t, r, f) ==
    [ok |-> f <= Len(t) + 1, a |-> SubSeq(t, r, f - 1), end |-> f]

\* the length of the optional (?:A(?:nswer)?:) at position e
AppLabelLen(t, e) ==
    IF IsA(At(t, e))
    THEN IF WordAt(t, e + 1, Nswer) /\ At(t, e + 6) = ":" THEN 7
         ELSE IF At(t, e + 1) = ":" THEN 2 ELSE 0
    ELSE 0

AppRestFrom(t, r) == AppGroup2(t, r, AppFirstLookahead(t, r))

\* app.py, the pattern after group 1, tried at position e:
\* (?:A(?:nswer)?:)?\s*(.*?)(?=\nQ|\Z)
AppRest(t, e) == AppRestFrom(t, SkipWs(t, e + AppLabelLen(t, e)))

RECURSIVE AppFirstRest(_, _)
\* the least position >= e, at most Len(t) + 1, from which the rest of the
\* pattern matches (0 when none): where the lazy group 1 ends
AppFirstRest(t, e) ==
    IF e > Len(t) + 1 THEN 0
    ELSE IF AppRest(t, e).ok THEN e
    ELSE AppFirstRest(t, e + 1)

AppMatched(t, s, e, rest) ==
    [ok |-> e # 0, q |-> SubSeq(t, s, e - 1), a |-> rest.a, end |-> rest.end]

AppGroup1(t, s, e) == AppMatched(t, s, e, AppRest(t, e))

AppAfterLabel(t, s) == AppGroup1(t, s, AppFirstRest(t, s))

AppAfterQ(t, c0) == AppAfterLabel(t, SkipWs(t, IF At(t, c0) = ":" THEN c0 + 1 ELSE c0))

\* app.py, one match of
\* Q(?:uestion)?:?\s*(.*?)(?:A(?:nswer)?:)?\s*(.*?)(?=\nQ|\Z)   (re.I | re.S)
\* whose Q is t[i]; group 1 is lazy: the shortest text after which the rest
\* of the pattern matches
AppQnAMatch(t, i) ==
    AppAfterQ(t, IF WordAt(t, i + 1, Uestion) THEN i + 8 ELSE i + 1)

RECURSIVE AppFindAll(_, _)
\* re.findall of app.py's pattern, scanning from position p
AppFindAll(t, p) ==
    IF p > Len(t) THEN <<>>
    ELSE IF ~IsQ(t[p]) THEN AppFindAll(t, p + 1)
    ELSE LET m == AppQnAMatch(t, p)
         IN IF m.ok THEN <<[q |-> m.q, a |-> m.a]>> \o AppFindAll(t, m.end)
            ELSE AppFindAll(t, p + 1)

\* model.py: "\n\s*A" stands at position e
ModelAnswerAt(t, e) == At(t, e) = NL /\ IsA(At(t, SkipWs(t, e + 1)))

\* model.py, the lookahead (?=\nQ[:\-]|\Z)
ModelLookahead(t, f) ==
    \/ f = Len(t) + 1
    \/ (At(t, f) = NL /\ IsQ(At(t, f + 1)) /\ IsColonDash(At(t, f + 2)))

RECURSIVE ModelFirstAnswer(_, _)
\* the least position >= e where "\n\s*A" stands, 0 when none
ModelFirstAnswer(t, e) ==
    IF e > Len(t) THEN 0
    ELSE IF ModelAnswerAt(t, e) THEN e
    ELSE ModelFirstAnswer(t, e + 1)

RECURSIVE ModelFirstLookahead(_, _)
\* the least position >= f where the lookahead holds
ModelFirstLookahead(t, f) ==
    IF ModelLookahead(t, f) THEN f ELSE ModelFirstLookahead(t, f + 1)

RECURSIVE ModelGroup1(_, _, _)
\* model.py, where group 1 starts and ends: \s* is greedy, so the start s is
\* tried from the end of the whitespace run down to lo
ModelGroup1(t, s, lo) ==
    IF s < lo THEN [ok |-> FALSE, s |-> 0, e |-> 0]
    ELSE LET e == ModelFirstAnswer(t, s)
         IN IF e # 0 THEN [ok |-> TRUE, s |-> s, e |-> e]
            ELSE ModelGroup1(t, s - 1, lo)

ModelMatched(t, g1, r, f) ==
    [ok |-> g1.ok, q |-> SubSeq(t, g1.s, g1.e - 1),
     a |-> SubSeq(t, r, f - 1), end |-> f]

\* group 2 starts at r and ends where the lookahead first holds
ModelGroup2(t, g1, r) == ModelMatched(t, g1, r, ModelFirstLookahead(t, r))

\* the A stands at p: A[:\-]?\s*
ModelAfterA(t, g1, p) ==
    ModelGroup2(t, g1, SkipWs(t, IF IsColonDash(At(t, p + 1)) THEN p + 2 ELSE p + 1))

ModelAfterGroup1(t, g1) == ModelAfterA(t, g1, SkipWs(t, g1.e + 1))

\* the optional [:\-] is given back last
ModelGroup1Retry(t, c0, c1, g) ==
    IF g.ok \/ c1 = c0 THEN g ELSE ModelGroup1(t, c0, c0)

ModelAfterQ(t, c0, c1) ==
    ModelAfterGroup1(t, ModelGroup1Retry(t, c0, c1, ModelGroup1(t, SkipWs(t, c1), c1)))

\* model.py, one match of
\* Q[:\-]?\s*(.*?)\n\s*A[:\-]?\s*(.*?)(?=\nQ[:\-]|\Z)   (re.S | re.I)
\* whose Q is t[i]
ModelQnAMatch(t, i) ==
    ModelAfterQ(t, i + 1, IF IsColonDash(At(t, i + 1)) THEN i + 2 ELSE i + 1)

RECURSIVE ModelFindAll(_, _)
\* re.findall of model.py's pattern, scanning from position p
ModelFindAll(t, p) ==
    IF p > Len(t) THEN <<>>
    ELSE IF ~IsQ(t[p]) THEN ModelFindAll(t, p + 1)
    ELSE LET m == ModelQnAMatch(t, p)
         IN IF m.ok THEN <<[q |-> m.q, a |-> m.a]>> \o ModelFindAll(t, m.end)
            ELSE ModelFindAll(t, p + 1)

\* ------------------------------------------------------------------ html
\* An HTML text is empty, blank (whitespace only), or a page with a body.
EmptyHtml == [kind |-> "empty", doc |-> <<>>]
BlankHtml == [kind |-> "blank", doc |-> <<>>]
Page(d) == [kind |-> "page", doc |-> d]

\* BeautifulSoup(html, "html.parser")
BeautifulSoup(markup) == markup.doc

StartsWith(t, c) == t # <<>> /\ t[1] = c
EndsWith(t, c) == t # <<>> /\ t[Len(t)] = c
Min(a, b) == IF a <= b THEN a ELSE b

\* ------------------------------------------- ExtractionCascade of app.py
RECURSIVE AppKeepQnA(_)
\* app.py lines 68-70: the matches with both groups non-blank, cleaned
AppKeepQnA(qna) ==
    IF qna = <<>> THEN <<>>
    ELSE (IF Strip(qna[1].q) # <<>> /\ Strip(qna[1].a) # <<>>
          THEN <<[question |-> clean_text(qna[1].q),
                  answer |-> clean_text(qna[1].a)]>>
          ELSE <<>>) \o AppKeepQnA(Tail(qna))

\* 1. explicit Q: and A: patterns
AppStrategyA(soup) == AppKeepQnA(AppFindAll(get_text_stripped(soup), 1))

RECURSIVE AppZip(_, _, _, _)
AppZip(soup, dts, dds, k) ==
    IF k > Min(Len(dts), Len(dds)) THEN <<>>
    ELSE LET q == Strip(soup[dts[k]].text)
             a == Strip(soup[dds[k]].text)
         IN (IF q # <<>> /\ a # <<>>
             THEN <<[question |-> q, answer |-> a]>> ELSE <<>>)
            \o AppZip(soup, dts, dds, k + 1)

\* 2. <dt> and <dd> tags, zipped by position
AppStrategyB(soup) ==
    AppZip(soup, find_all(soup, {"dt"}), find_all(soup, {"dd"}), 1)

RECURSIVE AppHeadings(_, _)
AppHeadings(soup, hs) ==
    IF hs = <<>> THEN <<>>
    ELSE LET i == Head(hs)
             has_next == i + 1 <= Len(soup)
             q == Strip(soup[i].text)
             a == Strip(soup[i + 1].text)
         IN (IF /\ has_next
                /\ soup[i + 1].tag \in {"p", "div", "li", "span"}
                /\ EndsWith(q, "?")
                /\ a # <<>>
             THEN <<[question |-> q, answer |-> a]>> ELSE <<>>)
            \o AppHeadings(soup, Tail(hs))

\* 3. a heading followed by a paragraph
AppStrategyC(soup) ==
    AppHeadings(soup, find_all(soup, {"h1", "h2", "h3", "h4"}))

RECURSIVE AppAdjacent(_, _)
AppAdjacent(texts, i) ==
    IF i > Len(texts) - 1 THEN <<>>
    ELSE (IF /\ (StartsWith(texts[i], "Q") \/ EndsWith(texts[i], "?"))
             /\ StartsWith(texts[i + 1], "A")
          THEN <<[question |-> texts[i], answer |-> texts[i + 1]]>>
          ELSE <<>>) \o AppAdjacent(texts, i + 1)

\* 4. the broader search
AppStrategyD(soup) ==
    LET found == find_all(soup, {"p", "div", "li", "span", "h2", "h3", "h4",
                                 "strong", "b"})
        texts == [k \in 1..Len(found) |-> Strip(soup[found[k]].text)]
    IN AppAdjacent(texts, 1)

\* "if faqs: return faqs"
ReturnIfFaqs_Never(faqs) == FALSE
ReturnIfFaqs(faqs) == faqs # <<>>

\* app.py lines 98-112
ExtractAfterC(soup, f3) ==
    IF ReturnIfFaqs(f3) THEN [faqs |-> f3, ran |-> <<"A", "B", "C">>]
    ELSE [faqs |-> f3 \o AppStrategyD(soup), ran |-> <<"A", "B", "C", "D">>]

\* app.py lines 85-96
ExtractAfterB(soup, f2) ==
    IF ReturnIfFaqs(f2) THEN [faqs |-> f2, ran |-> <<"A", "B">>]
    ELSE ExtractAfterC(soup, f2 \o AppStrategyC(soup))

\* app.py lines 72-83
ExtractAfterA(soup, f1) ==
    IF ReturnIfFaqs(f1) THEN [faqs |-> f1, ran |-> <<"A">>]
    ELSE ExtractAfterB(soup, f1 \o AppStrategyB(soup))

ExtractFromSoup(soup) == ExtractAfterA(soup, AppStrategyA(soup))

\* app.py extract_faqs_from_html: the pairs returned and the strategies run
extract_faqs_from_html(markup) ==
    ExtractFromSoup(remove_noisy_tags(BeautifulSoup(markup)))

\* ----------------------------------------- ExtractionCascade of model.py
NoFaqs == [faqs |-> <<>>, seen_q |-> {}, seen_a |-> {}]

\* "if q and a and q not in seen_q and a not in seen_a"
IsNew(st, q, a) ==
    q # <<>> /\ a # <<>> /\ q \notin st.seen_q /\ a \notin st.seen_a

\* "seen_q.add(q); seen_a.add(a); faqs.append({"Q": q, "A": a})"
Accept(st, q, a) ==
    [faqs |-> Append(st.faqs, [Q |-> q, A |-> a]),
     seen_q |-> st.seen_q \cup {q},
     seen_a |-> st.seen_a \cup {a}]

Consider(st, q, a) == IF IsNew(st, q, a) THEN Accept(st, q, a) ELSE st

RECURSIVE ModeA(_, _)
\* Mode A: "Q: ... A: ..." pattern in raw text
ModeA(st, qa_pairs) ==
    IF qa_pairs = <<>> THEN st
    ELSE ModeA(Consider(st, clean_text_model(qa_pairs[1].q),
                        clean_text_model(qa_pairs[1].a)),
               Tail(qa_pairs))

ConsiderTerm(st, soup, dt, dd) ==
    IF dd = 0 THEN st
    ELSE Consider(st, clean_text_model(soup[dt].text),
                  clean_text_model(soup[dd].text))

RECURSIVE ModeB(_, _, _)
\* Mode B: <dl><dt>/<dd>
ModeB(st, soup, dts) ==
    IF dts = <<>> THEN st
    ELSE ModeB(ConsiderTerm(st, soup, Head(dts),
                            FindNextSiblingFrom(soup, {"dd"}, Head(dts) + 1)),
               soup, Tail(dts))

RECURSIVE AnswerParts(_, _)
\* the texts gathered from the siblings after a heading, from position j
AnswerParts(soup, j) ==
    IF j > Len(soup) THEN <<>>
    ELSE IF soup[j].tag \in {"h2", "h3", "h4", "dt", "div"} THEN <<>>
    ELSE (IF soup[j].tag \in {"p", "dd", "ul", "ol"}
          THEN <<clean_text_model(Strip(soup[j].text))>> ELSE <<>>)
         \o AnswerParts(soup, j + 1)

\* model.py lines 100-103
ConsiderAnswer(st, q, a) ==
    IF a # <<>> /\ a \notin st.seen_a THEN Accept(st, q, a) ELSE st

\* model.py lines 91-103
ConsiderHeading(st, soup, h, q) ==
    IF q = <<>> \/ q \in st.seen_q THEN st
    ELSE ConsiderAnswer(st, q, JoinWith(AnswerParts(soup, h + 1), <<" ">>))

RECURSIVE ModeC(_, _, _)
\* Mode C: headings (<h2>/<h3>/<h4>) + following content
ModeC(st, soup, hs) ==
    IF hs = <<>> THEN st
    ELSE ModeC(ConsiderHeading(st, soup, Head(hs),
                               clean_text_model(soup[Head(hs)].text)),
               soup, Tail(hs))

ModesOfSoup(soup) ==
    ModeC(ModeB(ModeA(NoFaqs, ModelFindAll(get_text(soup), 1)),
                soup, find_all(soup, {"dt"})),
          soup, find_all(soup, {"h2", "h3", "h4"}))

\* model.py extract_faq, lines 65-105: what it does with a non-empty html
ExtractModes(markup) ==
    [faqs |-> ModesOfSoup(remove_noise(BeautifulSoup(markup))).faqs,
     ran |-> <<"A", "B", "C">>]

\* the texts of the elements of the model's documents
TextQ == <<"Q", ":", "x", "?">>
TextA == <<"A", ":", "y">>
TextY == <<"y">>

\* ------------------------------------------------------- values and JSON
\* A value held in memory or written as JSON: a dict (its items in insertion
\* order), a list of pairs, or a string. Garbage is text that is not JSON.
Dict(items) == [t |-> "dict", items |-> items, list |-> <<>>, str |-> ""]
List(l) == [t |-> "list", items |-> <<>>, list |-> l, str |-> ""]
Str(s) == [t |-> "str", items |-> <<>>, list |-> <<>>, str |-> s]
Garbage == [t |-> "garbage", items |-> <<>>, list |-> <<>>, str |-> ""]
Item(k, v) == [k |-> k, v |-> v]
EmptyDict == Dict(<<>>)

\* DATA_FILE: absent, unreadable (open or read raises OSError or
\* UnicodeDecodeError), or a text, held as the JSON documents it consists of
Absent == [kind |-> "absent", docs |-> <<>>]
Unreadable == [kind |-> "unreadable", docs |-> <<>>]
TextFile(docs) == [kind |-> "text", docs |-> docs]

\* "url in faq_store"
Has(st, u) == st.t = "dict" /\ \E i \in 1..Len(st.items) : st.items[i].k = u

\* faq_store[url]
Get(st, u) == st.items[CHOOSE i \in 1..Len(st.items) : st.items[i].k = u].v

\* faq_store[url] = faqs, on a dict
Put(st, u, v) ==
    IF Has(st, u)
    THEN Dict([i \in 1..Len(st.items) |->
                 IF st.items[i].k = u THEN Item(u, v) ELSE st.items[i]])
    ELSE Dict(Append(st.items, Item(u, v)))

\* json.load(f): the one document of the text; JSONDecodeError when the text
\* is empty, is not JSON, or holds more after its first document
json_load(f) ==
    IF Len(f.docs) = 1 /\ f.docs[1].t # "garbage"
    THEN [raised |-> "", value |-> f.docs[1]]
    ELSE [raised |-> "JSONDecodeError", value |-> EmptyDict]

\* "except json.JSONDecodeError:" gives {}; anything else raised goes on
ExceptJSONDecodeError(r) ==
    IF r.raised = "JSONDecodeError" THEN [raised |-> "", value |-> EmptyDict]
    ELSE r

\* the load of both scripts: os.path.exists, open, json.load in a try
LoadFile(f) ==
    IF f.kind = "absent" THEN [raised |-> "", value |-> EmptyDict]
    ELSE IF f.kind = "unreadable" THEN [raised |-> "OSError", value |-> EmptyDict]
    ELSE ExceptJSONDecodeError(json_load(f))

\* app.py load_faq_cache
load_faq_cache(f) == LoadFile(f)

\* model.py lines 108-115
load_faq_store(f) == LoadFile(f)

\* app.py save_faq_cache: json.dump(faq_store, f, ...), one document
save_faq_cache(st) == TextFile(<<st>>)

\* model.py save_faq_store: one {"url": key, "faqs": value} line per entry
save_faq_store(st) ==
    TextFile([i \in 1..Len(st.items) |->
                Dict(<<Item("url", Str(st.items[i].k)),
                       Item("faqs", st.items[i].v)>>)])

\* ------------------------------------------------------------ fetch tiers
UrlFaq == "https://a.example/faq"
UrlHelp == "https://b.example/help"
URLs == {UrlFaq, UrlHelp}

\* "faq" in url.lower()
HasFaqHint(u) == u = UrlFaq

PagePlain == <<Elem("p", TextY)>>
PageHeading == <<Elem("h2", TextQ), Elem("p", TextA)>>
PageList == <<Elem("dt", TextQ), Elem("dd", TextY)>>
Htmls == {EmptyHtml, BlankHtml, Page(PagePlain), Page(PageHeading), Page(PageList)}

\* what a tier meets: it raises (error, timeout, ...) or it gets an html
Fail(k) == [k |-> k, html |-> EmptyHtml]
Got(h) == [k |-> "html", html |-> h]
Raises(o) == o.k # "html"
HttpOutcomes == {Fail("error"), Fail("timeout")} \cup {Got(h) : h \in Htmls}
RenderOutcomes == HttpOutcomes
\* launch_error: webdriver.Chrome(...) raises; get_error and timeout:
\* driver.get raises; source_error: driver.page_source raises
BrowserOutcomes ==
    {Fail("launch_error"), Fail("get_error"), Fail("timeout"),
     Fail("source_error")} \cup {Got(h) : h \in Htmls}

\* app.py get_page_source_selenium: is driver.quit() reached
QuitReached(o) == ~Raises(o)
\* the browsers the call leaves running
Leaked(o) == IF o.k = "launch_error" \/ QuitReached(o) THEN 0 ELSE 1

\* "not html.strip()" and "not html"
IsBlank(h) == h.kind \in {"empty", "blank"}
IsEmpty(h) == h.kind = "empty"

NoResp == [kind |-> "none", faqs |-> <<>>, path |-> ""]
Pending == [kind |-> "pending", faqs |-> <<>>, path |-> ""]
Value(faqs, path) == [kind |-> "value", faqs |-> faqs, path |-> path]
Raised(path) == [kind |-> "raised", faqs |-> <<>>, path |-> path]
NoRet == [kind |-> "none", faqs |-> <<>>]
Returned(faqs) == [kind |-> "value", faqs |-> faqs]
Propagated == [kind |-> "raised", faqs |-> <<>>]
NoSaved == [url |-> "", faqs |-> <<>>]

\* "except Exception as e:" catches what the tier raised
ExceptException_Reraise(o) == FALSE
ExceptException(o) == Raises(o)

\* "if url in faq_store:"
CacheHit_Never(st, u) == FALSE
CacheHit(st, u) == Has(st, u)

\* app.py line 145, "if not faqs:" before the Selenium fallback
NeedSelenium_Never(faqs) == FALSE
NeedSelenium(faqs) == faqs = <<>>

\* ------------------------------------------------ one run of an extractor
DocTags == {"dt", "dd", "h2", "p"}
DocTexts == {TextQ, TextA, TextY}
DocElems == {Elem(g, t) : g \in DocTags, t \in DocTexts}
Docs == UNION {[1..n -> DocElems] : n \in 0..MaxElems}

CleanIdle == ctext = <<>> /\ cprev = <<>> /\ cn = 0 /\ cwho = "app"
ExtractIdle ==
    doc = <<>> /\ xwho = "app" /\ xpc = "done" /\ xfaqs = <<>> /\ xran = <<>>

MainIdle ==
    /\ prog = "app" /\ hasSession = FALSE /\ proc = "down"
    /\ faq_store = EmptyDict /\ file = Absent /\ live = 0 /\ pc = "idle"
    /\ url = "" /\ html = EmptyHtml /\ tiers = <<>> /\ outs = <<>>
    /\ ret = NoRet /\ resp = NoResp /\ saved = NoSaved

ExtractInit ==
    /\ CleanIdle
    /\ MainIdle
    /\ doc \in Docs
    /\ xwho \in {"app", "model"}
    /\ xpc = "start"
    /\ xfaqs = <<>>
    /\ xran = <<>>

ExtractApp ==
    /\ xwho = "app"
    /\ xpc = "start"
    /\ LET r == extract_faqs_from_html(Page(doc))
       IN xfaqs' = r.faqs /\ xran' = r.ran
    /\ xpc' = "done"
    /\ UNCHANGED <<doc, xwho, cvars, mvars>>

ExtractModel ==
    /\ xwho = "model"
    /\ xpc = "start"
    /\ LET r == ExtractModes(Page(doc))
       IN xfaqs' = r.faqs /\ xran' = r.ran
    /\ xpc' = "done"
    /\ UNCHANGED <<doc, xwho, cvars, mvars>>

\* ------------------------------------------------- normalizer, run twice
CleanAlphabet == {"[", "]", "1", "a", " ", NBSP, PILCROW, "<"}
CleanInputs == UNION {[1..n -> CleanAlphabet] : n \in 0..MaxLen}

CleanInit ==
    /\ ExtractIdle
    /\ MainIdle
    /\ ctext \in CleanInputs
    /\ cprev = <<>>
    /\ cn = 0
    /\ cwho \in {"app", "model"}

NormalizeApp ==
    /\ cwho = "app"
    /\ cn < 2
    /\ cprev' = ctext
    /\ ctext' = clean_text(ctext)
    /\ cn' = cn + 1
    /\ UNCHANGED <<cwho, xvars, mvars>>

NormalizeModel ==
    /\ cwho = "model"
    /\ cn < 2
    /\ cprev' = ctext
    /\ ctext' = clean_text_model(ctext)
    /\ cn' = cn + 1
    /\ UNCHANGED <<cwho, xvars, mvars>>

CleanNext == NormalizeApp \/ NormalizeModel

SpecClean == CleanInit /\ [][CleanNext]_vars

ExtractNext == ExtractApp \/ ExtractModel

SpecExtract == ExtractInit /\ [][ExtractNext]_vars

\* ------------------------------------------------- the FAQ store at work
\* what DATA_FILE may hold when a process starts: nothing (absent), an
\* unreadable file, an empty text, text that is not JSON, JSON that is no
\* mapping ("[]"), or an empty mapping ("{}")
InitialFiles ==
    {Absent, Unreadable, TextFile(<<>>), TextFile(<<Garbage>>),
     TextFile(<<List(<<>>)>>), TextFile(<<EmptyDict>>)}

MainInit ==
    /\ CleanIdle
    /\ ExtractIdle
    /\ prog \in {"app", "model"}
    /\ hasSession \in BOOLEAN
    /\ proc = "down"
    /\ faq_store = EmptyDict
    /\ file \in InitialFiles
    /\ live = 0
    /\ pc = "idle"
    /\ url = ""
    /\ html = EmptyHtml
    /\ tiers = <<>>
    /\ outs = <<>>
    /\ ret = NoRet
    /\ resp = NoResp
    /\ saved = NoSaved

\* the module-level load when the script starts; an exception the load does
\* not catch ends the start
Started(r) ==
    /\ proc' = IF r.raised # "" THEN "crashed" ELSE "up"
    /\ faq_store' = r.value
    /\ url' = ""
    /\ html' = EmptyHtml
    /\ tiers' = <<>>
    /\ outs' = <<>>
    /\ ret' = NoRet
    /\ resp' = NoResp
    /\ UNCHANGED <<prog, hasSession, file, live, pc, saved, cvars, xvars>>

\* app.py line 178: faq_store = load_faq_cache()
AppStart ==
    /\ prog = "app"
    /\ proc = "down"
    /\ Started(load_faq_cache(file))

\* model.py lines 108-115
ModelStart ==
    /\ prog = "model"
    /\ proc = "down"
    /\ Started(load_faq_store(file))

\* the process ends between two requests; its memory is gone, the file and
\* any browser left running stay
Exit ==
    /\ proc = "up"
    /\ pc = "idle"
    /\ proc' = "down"
    /\ faq_store' = EmptyDict
    /\ UNCHANGED <<prog, hasSession, file, live, pc, url, html, tiers, outs,
                   ret, resp, saved, cvars, xvars>>

\* the cache check that opens a request for URL u
Begin(u) ==
    /\ proc = "up"
    /\ pc = "idle"
    /\ url' = u
    /\ html' = EmptyHtml
    /\ tiers' = <<>>
    /\ outs' = <<>>
    /\ ret' = NoRet
    /\ IF CacheHit(faq_store, u)
       THEN resp' = Value(Get(faq_store, u).list, "cache") /\ pc' = "idle"
       ELSE resp' = Pending /\ pc' = "tier1"
    /\ UNCHANGED <<prog, hasSession, proc, faq_store, file, live, saved,
                   cvars, xvars>>

\* app.py lines 182-190
AppBegin(u) == prog = "app" /\ Begin(u)

\* model.py lines 127-131
ModelBegin(u) == prog = "model" /\ Begin(u)

\* the tier goes on to a later tier: nothing is reported yet
GoOn(next) ==
    /\ pc' = next
    /\ UNCHANGED <<faq_store, file, saved, ret, resp>>

\* app.py lines 192-201: fetch_and_extract_all has returned r (or raised);
\* non-empty faqs are stored and saved, then the result is reported
AppReport(r) ==
    /\ ret' = r
    /\ pc' = "idle"
    /\ IF r.kind = "raised"
       THEN resp' = Raised("fresh") /\ UNCHANGED <<faq_store, file, saved>>
       ELSE IF r.faqs = <<>>
       THEN resp' = Value(<<>>, "fresh") /\ UNCHANGED <<faq_store, file, saved>>
       ELSE IF faq_store.t # "dict"
       \* faq_store[url] = faqs on a list: TypeError
       THEN resp' = Raised("fresh") /\ UNCHANGED <<faq_store, file, saved>>
       ELSE LET st == Put(faq_store, url, List(r.faqs))
            IN /\ faq_store' = st
               /\ file' = save_faq_cache(st)
               /\ saved' = [url |-> url, faqs |-> r.faqs]
               /\ resp' = Value(r.faqs, "fresh")

\* app.py lines 125-131 and 139-145: what follows a tier that got faqs
AppAfterTier(faqs, next) ==
    IF faqs # <<>> THEN AppReport(Returned(faqs))
    ELSE IF next = "tier2" THEN GoOn("tier2")
    ELSE IF NeedSelenium(faqs) THEN GoOn("tier3")
    ELSE AppReport(Returned(faqs))

\* a tier of app.py inside its try/except
AppTry(o, next) ==
    IF Raises(o) /\ ~ExceptException(o) THEN AppReport(Propagated)
    ELSE IF Raises(o) THEN AppAfterTier(<<>>, next)
    ELSE AppAfterTier(extract_faqs_from_html(o.html).faqs, next)

\* app.py fetch_and_extract_all lines 120-128: requests.get
AppTier1(o) ==
    /\ prog = "app"
    /\ pc = "tier1"
    /\ tiers' = Append(tiers, 1)
    /\ outs' = Append(outs, o)
    /\ html' = IF Raises(o) THEN html ELSE o.html
    /\ AppTry(o, IF hasSession THEN "tier2" ELSE "tier3")
    /\ UNCHANGED <<prog, hasSession, proc, live, url, cvars, xvars>>

\* app.py fetch_and_extract_all lines 131-142: requests_html rendering
AppTier2(o) ==
    /\ prog = "app"
    /\ pc = "tier2"
    /\ tiers' = Append(tiers, 2)
    /\ outs' = Append(outs, o)
    /\ html' = IF Raises(o) THEN html ELSE o.html
    /\ AppTry(o, "tier3")
    /\ UNCHANGED <<prog, hasSession, proc, live, url, cvars, xvars>>

\* app.py fetch_and_extract_all lines 145-153 with get_page_source_selenium
AppTier3(o) ==
    /\ prog = "app"
    /\ pc = "tier3"
    /\ live + Leaked(o) <= MaxLive
    /\ tiers' = Append(tiers, 3)
    /\ outs' = Append(outs, o)
    /\ live' = live + Leaked(o)
    /\ html' = IF Raises(o) THEN html ELSE o.html
    /\ IF Raises(o) /\ ~ExceptException(o) THEN AppReport(Propagated)
       ELSE IF Raises(o) THEN AppReport(Returned(<<>>))
       ELSE AppReport(Returned(extract_faqs_from_html(o.html).faqs))
    /\ UNCHANGED <<prog, hasSession, proc, url, cvars, xvars>>

\* model.py extract_faq lines 62-105, once fetch_html has returned h
extract_faq(h) == IF IsEmpty(h) THEN <<>> ELSE ExtractModes(h).faqs

\* model.py lines 133-136: extract_faq has returned r (or raised); the
\* result is stored and saved whatever it is, then reported
ModelReport(r) ==
    /\ ret' = r
    /\ pc' = "idle"
    /\ IF r.kind = "raised"
       THEN resp' = Raised("fresh") /\ UNCHANGED <<faq_store, file, saved>>
       ELSE IF faq_store.t # "dict"
       THEN resp' = Raised("fresh") /\ UNCHANGED <<faq_store, file, saved>>
       ELSE LET st == Put(faq_store, url, List(r.faqs))
            IN /\ faq_store' = st
               /\ file' = save_faq_store(st)
               /\ saved' = [url |-> url, faqs |-> r.faqs]
               /\ resp' = Value(r.faqs, "fresh")

\* model.py fetch_html lines 27-36: requests.get
ModelTier1(o) ==
    /\ prog = "model"
    /\ pc = "tier1"
    /\ tiers' = Append(tiers, 1)
    /\ outs' = Append(outs, o)
    /\ LET h == IF Raises(o) THEN EmptyHtml ELSE o.html
       IN IF Raises(o) /\ ~ExceptException(o)
          THEN html' = html /\ ModelReport(Propagated)
          ELSE /\ html' = h
               /\ IF (HasFaqHint(url) \/ IsBlank(h)) /\ hasSession
                  THEN GoOn("tier2")
                  ELSE ModelReport(Returned(extract_faq(h)))
    /\ UNCHANGED <<prog, hasSession, proc, live, url, cvars, xvars>>

\* model.py fetch_html lines 37-44: requests_html rendering
ModelTier2(o) ==
    /\ prog = "model"
    /\ pc = "tier2"
    /\ tiers' = Append(tiers, 2)
    /\ outs' = Append(outs, o)
    /\ LET h == IF Raises(o) THEN html ELSE o.html
       IN IF Raises(o) /\ ~ExceptException(o)
          THEN html' = html /\ ModelReport(Propagated)
          ELSE html' = h /\ ModelReport(Returned(extract_faq(h)))
    /\ UNCHANGED <<prog, hasSession, proc, live, url, cvars, xvars>>

Next ==
    \/ AppStart
    \/ ModelStart
    \/ Exit
    \/ \E u \in URLs : AppBegin(u)
    \/ \E o \in HttpOutcomes : AppTier1(o)
    \/ \E o \in RenderOutcomes : AppTier2(o)
    \/ \E o \in BrowserOutcomes : AppTier3(o)
    \/ \E u \in URLs : ModelBegin(u)
    \/ \E o \in HttpOutcomes : ModelTier1(o)
    \/ \E o \in RenderOutcomes : ModelTier2(o)

Spec == MainInit /\ [][Next]_vars

\* ----------------------------------------------------------------- claims
StrategyOrder == <<"A", "B", "C", "D">>

\* what each strategy of app.py yields on document d, taken alone
AppOutputs(d) ==
    <<AppStrategyA(remove_noisy_tags(d)), AppStrategyB(remove_noisy_tags(d)),
      AppStrategyC(remove_noisy_tags(d)), AppStrategyD(remove_noisy_tags(d))>>

\* what each mode of model.py yields on document d, taken alone
ModelOutputs(d) ==
    <<ModeA(NoFaqs, ModelFindAll(get_text(remove_noise(d)), 1)).faqs,
      ModeB(NoFaqs, remove_noise(d), find_all(remove_noise(d), {"dt"})).faqs,
      ModeC(NoFaqs, remove_noise(d),
            find_all(remove_noise(d), {"h2", "h3", "h4"})).faqs>>

\* the first strategy that yields at least one pair, 0 when none does
Winner(outputs) ==
    IF \A k \in 1..Len(outputs) : outputs[k] = <<>> THEN 0
    ELSE CHOOSE k \in 1..Len(outputs) :
            outputs[k] # <<>> /\ \A j \in 1..(k - 1) : outputs[j] = <<>>

WinnerTakesAll(outputs) ==
    Winner(outputs) # 0 =>
        /\ xfaqs = outputs[Winner(outputs)]
        /\ xran = SubSeq(StrategyOrder, 1, Winner(outputs))

IsPrefix(a, b) == Len(a) <= Len(b) /\ SubSeq(b, 1, Len(a)) = a

Questions(faqs) ==
    [i \in 1..Len(faqs) |-> IF xwho = "app" THEN faqs[i].question ELSE faqs[i].Q]
Answers(faqs) ==
    [i \in 1..Len(faqs) |-> IF xwho = "app" THEN faqs[i].answer ELSE faqs[i].A]
NoRepeat(seq) == \A i, j \in 1..Len(seq) : i < j => seq[i] # seq[j]

\* C6: in a sequence returned by strategy A, B or C no two pairs have the
\* same question and no two pairs have the same answer.
C6_NoDuplicates ==
    (xpc = "done" /\ xran # StrategyOrder) =>
        NoRepeat(Questions(xfaqs)) /\ NoRepeat(Answers(xfaqs))

\* a fetch (a request that missed the cache) has finished
FetchDone == pc = "idle" /\ outs # <<>>

\* the pairs the script extracts from what a tier met
ProducedBy(o) ==
    IF Raises(o) THEN <<>>
    ELSE IF prog = "app" THEN extract_faqs_from_html(o.html).faqs
    ELSE extract_faq(o.html)

Attempted(n) == \E k \in 1..Len(tiers) : tiers[k] = n

\* C2: no tier's error reaches the caller of the fetch cascade: the call
\* returns a value; when every attempted tier failed the value is empty; and
\* when tier 1 raised, the scripted-render tier was tried if the capability
\* is there (in app.py the browser tier after it) and the value returned is
\* what the last tier tried produced.
C2_NoTierErrorPropagates ==
    FetchDone =>
        /\ ret.kind = "value"
        /\ (\A k \in 1..Len(outs) : Raises(outs[k])) => ret.faqs = <<>>
        /\ Raises(outs[1]) =>
              /\ hasSession => (Len(tiers) >= 2 /\ tiers[2] = 2)
              /\ (prog = "app" /\ ~hasSession) => tiers = <<1, 3>>
              /\ ret.faqs = ProducedBy(outs[Len(outs)])

\* tier 1 raised and the call returned the pairs a later tier produced
C2_Witness ==
    /\ FetchDone
    /\ Len(outs) >= 2
    /\ Raises(outs[1])
    /\ ret.kind = "value"
    /\ ret.faqs # <<>>

\* C3: within one process run an entry of the store never changes once it
\* is there, and a request for its URL reports the stored value from the
\* cache without fetching.
C3_FirstWriteWins ==
    [][(proc = "up" /\ proc' = "up") =>
          \A u \in URLs :
              Has(faq_store, u) =>
                  /\ Has(faq_store', u)
                  /\ Get(faq_store', u) = Get(faq_store, u)
                  /\ (pc = "idle" /\ url' = u) =>
                        /\ pc' = "idle"
                        /\ resp' = Value(Get(faq_store, u).list, "cache")]_vars

\* a request was answered from the cache with pairs stored earlier
C3_Witness ==
    /\ proc = "up"
    /\ pc = "idle"
    /\ resp.kind = "value"
    /\ resp.path = "cache"
    /\ resp.faqs # <<>>
    /\ Has(faq_store, url)

\* C4: after put(url, result) and persist, the store a fresh start loads
\* from the file holds result for url, in app.py and in model.py.
C4_RoundTrip ==
    (proc = "up" /\ resp = NoResp /\ saved # NoSaved) =>
        /\ Has(faq_store, saved.url)
        /\ Get(faq_store, saved.url) = List(saved.faqs)

\* the file is absent, unreadable, not valid JSON, or JSON that is no mapping
BadFile(f) ==
    \/ f.kind \in {"absent", "unreadable"}
    \/ json_load(f).raised # ""
    \/ json_load(f).value.t # "dict"

\* C5: the load at startup never fails: with an absent, malformed or
\* unreadable file the process is up with an empty store.
C5_LoadNeverFails ==
    (proc # "down" /\ resp = NoResp) =>
        /\ proc = "up"
        /\ BadFile(file) => faq_store = EmptyDict

\* C7: once a fetch attempt is over, no headless browser is left running.
C7_NoLiveBrowsers == pc = "idle" => live = 0

\* a tier met something the script can use: app.py, an html with pairs in
\* it; model.py, an html that is not blank
Usable(o) ==
    /\ ~Raises(o)
    /\ IF prog = "app" THEN extract_faqs_from_html(o.html).faqs # <<>>
       ELSE ~IsBlank(o.html)

EarlierUsable ==
    \E k \in 1..Len(outs) : tiers[k] \in {1, 2} /\ Usable(outs[k])

C10_OnlySuccessMutates ==
    [][(proc = "up" /\ proc' = "up" /\ pc' = "idle") =>
          /\ (resp'.path = "cache" \/ resp'.faqs = <<>>) =>
                (faq_store' = faq_store /\ file' = file)
          /\ faq_store' # faq_store =>
                LoadFile(file') = [raised |-> "", value |-> faq_store']]_vars

\* C8: normalizing an already normalized text changes nothing, in app.py
\* and in model.py: clean_text(clean_text(s)) = clean_text(s).
C8_Idempotent == cn = 2 => ctext = cprev

====
